---- MODULE Spec2Model ----
(***************************************************************************)
(* Content store and listing of the blog (content.config.ts,               *)
(* pages/blog/index.astro).                                                *)
(*                                                                         *)
(* The content directory holds MaxFiles files, each with a YAML front      *)
(* matter.  The glob loader syncs the files one by one in an order the     *)
(* file system decides, validates each front matter against the zod        *)
(* schema of the `blog` collection and stores the parsed entry under its   *)
(* id.  getPosts filters the collection by import.meta.env.PROD and the    *)
(* index page sorts the array it gets by date, most recent first.          *)
(*                                                                         *)
(* Strings are sequences of one-character strings, so that "" is <<>> and  *)
(* a date string is parsed character by character.                         *)
(***************************************************************************)
EXTENDS Integers, Sequences, FiniteSets, TLC

\* number of files matched by the glob pattern
MaxFiles == 2
\* number of times the index page script runs (once per build, once per
\* request in development)
MaxRenders == 2
\* number of block nodes in the body of a document
MaxNodes == 3

VARIABLES
  files,    \* the content directory: file index -> front matter (read only)
  PROD,     \* import.meta.env.PROD
  pending,  \* files the loader has not synced yet
  store,    \* the data store of the collection: entries in insertion order
  phase,    \* "loading" | "loaded" | "failed"
  error,    \* the error load() threw, NoError while there is none
  heap,     \* the arrays getPosts has returned, by reference (index)
  pc,       \* the index page script: "idle" | "awaited"
  input,    \* the reference `await getPosts()` evaluated to in index.astro
  posts,    \* the reference held by `const posts` of index.astro, 0 before
  doc,      \* the file whose body is being rendered, 0 while there is none
  mdast,    \* the syntax tree of that body as the parser returned it
  tree,     \* the syntax tree, as the transformers have left it so far
  stage,    \* the number of transformers that have run on the tree
  ran,      \* the names of the transformers that have run, in order
  threw,    \* a transformer threw and the run of the pipeline ended
  otherDoc,   \* a second file whose body is being rendered, 0 while none
  otherMdast, \* the syntax tree of its body as the parser returned it
  otherTree,  \* its syntax tree, as the transformers have left it so far
  otherStage  \* the number of transformers that have run on that tree

storeVars == <<files, PROD, pending, store, phase, error, heap, pc, input, posts>>

treeVars == <<doc, mdast, tree, stage, ran, threw>>

pageVars == <<otherDoc, otherMdast, otherTree, otherStage>>

vars == <<storeVars, treeVars, pageVars>>

----------------------------------------------------------------------------
(* YAML values of a front matter *)

Undefined == [type |-> "undefined", s |-> <<>>, n |-> 0, b |-> FALSE]
Str(s) == [type |-> "string", s |-> s, n |-> 0, b |-> FALSE]
Num(n) == [type |-> "number", s |-> <<>>, n |-> n, b |-> FALSE]
Bool(b) == [type |-> "boolean", s |-> <<>>, n |-> 0, b |-> b]

----------------------------------------------------------------------------
(* new Date(value), as z.coerce.date() calls it.  Time values are counted  *)
(* in days since 1970-01-01 (every date of the model is a date without a   *)
(* time of day); NaN is the invalid date.                                  *)

NaN == [valid |-> FALSE, t |-> 0]
TimeValue(t) == [valid |-> TRUE, t |-> t]

msPerDay == 86400000

Digits == <<"0", "1", "2", "3", "4", "5", "6", "7", "8", "9">>

IsDigit(c) == \E i \in 1..10 : Digits[i] = c

DigitValue(c) == (CHOOSE i \in 1..10 : Digits[i] = c) - 1

RECURSIVE ToInteger(_)
ToInteger(s) ==
  IF s = <<>> THEN 0
  ELSE 10 * ToInteger(SubSeq(s, 1, Len(s) - 1)) + DigitValue(s[Len(s)])

AllDigits(s) == \A i \in 1..Len(s) : IsDigit(s[i])

\* MakeDay(year, month, date) of ECMAScript, month counted from 1: the day
\* number of a civil date; a date past the end of the month rolls over.
MakeDay(y, m, d) ==
  LET yy == IF m <= 2 THEN y - 1 ELSE y
      era == yy \div 400
      yoe == yy - era * 400
      mp == IF m > 2 THEN m - 3 ELSE m + 9
      doy == (153 * mp + 2) \div 5 + d - 1
      doe == yoe * 365 + yoe \div 4 - yoe \div 100 + doy
  IN era * 146097 + doe - 719468

DayFromParts(y, m, d) ==
  IF m \in 1..12 /\ d \in 1..31 THEN TimeValue(MakeDay(y, m, d)) ELSE NaN

\* Date.parse: the ISO form YYYY-MM-DD, and the fallback form MM-DD-YYYY
\* that the engine's legacy parser accepts; anything else is NaN.
DateParse(s) ==
  IF Len(s) = 10 /\ s[5] = "-" /\ s[8] = "-"
     /\ AllDigits(SubSeq(s, 1, 4)) /\ AllDigits(SubSeq(s, 6, 7))
     /\ AllDigits(SubSeq(s, 9, 10))
  THEN DayFromParts(ToInteger(SubSeq(s, 1, 4)), ToInteger(SubSeq(s, 6, 7)),
                    ToInteger(SubSeq(s, 9, 10)))
  ELSE IF Len(s) = 10 /\ s[3] = "-" /\ s[6] = "-"
          /\ AllDigits(SubSeq(s, 1, 2)) /\ AllDigits(SubSeq(s, 4, 5))
          /\ AllDigits(SubSeq(s, 7, 10))
  THEN DayFromParts(ToInteger(SubSeq(s, 7, 10)), ToInteger(SubSeq(s, 1, 2)),
                    ToInteger(SubSeq(s, 4, 5)))
  ELSE NaN

\* new Date(v): a string is parsed, a number is a time value in
\* milliseconds, a boolean is the number 0 or 1, undefined is NaN.
NewDate(v) ==
  CASE v.type = "string" -> DateParse(v.s)
    [] v.type = "number" -> TimeValue(v.n \div msPerDay)
    [] v.type = "boolean" -> TimeValue(0)
    [] OTHER -> NaN

----------------------------------------------------------------------------
(* The schema of the blog collection *)

Ok(v) == [ok |-> TRUE, value |-> v]
Issue(v) == [ok |-> FALSE, value |-> v]

\* z.string().optional(): an absent value passes
zStringOptional(v) ==
  IF v.type \in {"string", "undefined"} THEN [ok |-> TRUE, value |-> v.s]
  ELSE [ok |-> FALSE, value |-> <<>>]

\* z.coerce.string(): a number passes, as its decimal text
zStringCoerce(v) ==
  IF v.type = "string" THEN [ok |-> TRUE, value |-> v.s]
  ELSE IF v.type = "number" THEN [ok |-> TRUE, value |-> <<"7">>]
  ELSE [ok |-> FALSE, value |-> <<>>]

\* z.string()
zString(v) == IF v.type = "string" THEN Ok(v.s) ELSE Issue(<<>>)

\* a coercion that does not look at the time value
zCoerceDateUnchecked(v) == [ok |-> TRUE, value |-> NewDate(v).t]

\* z.coerce.date(): new Date(input), an issue when its time value is NaN
zCoerceDate(v) ==
  LET d == NewDate(v) IN IF d.valid THEN Ok(d.t) ELSE Issue(0)

\* z.boolean().default(true)
zBooleanDefaultTrue(v) ==
  CASE v.type = "undefined" -> [ok |-> TRUE, value |-> TRUE]
    [] v.type = "boolean" -> [ok |-> TRUE, value |-> v.b]
    [] OTHER -> [ok |-> FALSE, value |-> FALSE]

\* z.coerce.boolean().default(false): Boolean(input), true for any text
zBooleanCoerce(v) ==
  CASE v.type = "undefined" -> [ok |-> TRUE, value |-> FALSE]
    [] v.type = "boolean" -> [ok |-> TRUE, value |-> v.b]
    [] v.type = "string" -> [ok |-> TRUE, value |-> v.s # <<>>]
    [] OTHER -> [ok |-> TRUE, value |-> v.n # 0]

\* z.boolean().default(false)
zBooleanDefault(v) ==
  CASE v.type = "undefined" -> Ok(FALSE)
    [] v.type = "boolean" -> Ok(v.b)
    [] OTHER -> Issue(FALSE)

\* z.object(...).strict(): a key the schema does not declare is an issue
blogSchemaStrict(fm) ==
  LET title == zString(fm.title)
      description == zString(fm.description)
      date == zCoerceDate(fm.date)
      tldr == zString(fm.tldr)
      draft == zBooleanDefault(fm.draft)
      known == fm.slug = Undefined
  IN [success |-> title.ok /\ description.ok /\ date.ok /\ tldr.ok /\ draft.ok
                  /\ known,
      data |-> [title |-> title.value, description |-> description.value,
                date |-> date.value, tldr |-> tldr.value,
                draft |-> draft.value],
      issues |-> (IF title.ok THEN {} ELSE {"title"})
                 \cup (IF description.ok THEN {} ELSE {"description"})
                 \cup (IF date.ok THEN {} ELSE {"date"})
                 \cup (IF tldr.ok THEN {} ELSE {"tldr"})
                 \cup (IF draft.ok THEN {} ELSE {"draft"})
                 \cup (IF known THEN {} ELSE {"slug"})]

\* blog.schema.safeParse(data): z.object checks every declared key, collects
\* the issues of all of them, and strips the keys it does not declare.
blogSchema(fm) ==
  LET title == zString(fm.title)
      description == zString(fm.description)
      date == zCoerceDate(fm.date)
      tldr == zString(fm.tldr)
      draft == zBooleanDefault(fm.draft)
  IN [success |-> title.ok /\ description.ok /\ date.ok /\ tldr.ok /\ draft.ok,
      data |-> [title |-> title.value, description |-> description.value,
                date |-> date.value, tldr |-> tldr.value,
                draft |-> draft.value],
      issues |-> (IF title.ok THEN {} ELSE {"title"})
                 \cup (IF description.ok THEN {} ELSE {"description"})
                 \cup (IF date.ok THEN {} ELSE {"date"})
                 \cup (IF tldr.ok THEN {} ELSE {"tldr"})
                 \cup (IF draft.ok THEN {} ELSE {"draft"})]

----------------------------------------------------------------------------
(* The glob loader *)

FileStems == <<"a", "b", "c", "d">>

\* path of the i-th file under ./src/content/blog, matched by **/*.{md,mdx}
FilePath(i) == <<FileStems[i], ".", "m", "d", "x">>

\* the path without its extension
RECURSIVE StripExtension(_)
StripExtension(p) ==
  IF p = <<>> THEN <<>>
  ELSE IF p[Len(p)] = "." THEN SubSeq(p, 1, Len(p) - 1)
  ELSE StripExtension(SubSeq(p, 1, Len(p) - 1))

\* the loader's default generateId: the front matter's slug when it has a
\* truthy one, the slug of the file's path otherwise
generateId(f, data) ==
  IF data.slug.type = "string" /\ data.slug.s # <<>> THEN data.slug.s
  ELSE StripExtension(FilePath(f))

\* store.set: a Map keyed by id; setting an id already present replaces the
\* entry where it stands
storeSet(st, e) ==
  IF \E i \in 1..Len(st) : st[i].id = e.id
  THEN [i \in 1..Len(st) |-> IF st[i].id = e.id THEN e ELSE st[i]]
  ELSE Append(st, e)

NoError == [file |-> <<>>, id |-> <<>>, issues |-> {}]

----------------------------------------------------------------------------
(* The front matters the directory is drawn from: the valid ones vary in   *)
(* slug, date and draft (one is dated in the month-first form); the others *)
(* differ from a valid one in one field.                                   *)

Date20241231 == <<"2", "0", "2", "4", "-", "1", "2", "-", "3", "1">>
Date20230916 == <<"2", "0", "2", "3", "-", "0", "9", "-", "1", "6">>
Date07312025 == <<"0", "7", "-", "3", "1", "-", "2", "0", "2", "5">>
Date20241301 == <<"2", "0", "2", "4", "-", "1", "3", "-", "0", "1">>
DateSoon == <<"s", "o", "o", "n">>

FrontMatter(slug, date, draft) ==
  [slug |-> slug, title |-> Str(<<"A">>), description |-> Str(<<"B">>),
   date |-> date, tldr |-> Str(<<"C">>), draft |-> draft]

PlainFrontMatter == FrontMatter(Undefined, Str(Date20241231), Undefined)

OddStrings == {Undefined, Str(<<>>), Num(7)}

FrontMatters ==
  {FrontMatter(slug, Str(date), draft) :
     slug \in {Undefined, Str(<<"a">>)},
     date \in {Date20241231, Date20230916},
     draft \in {Undefined, Bool(TRUE), Bool(FALSE)}}
  \cup {FrontMatter(Undefined, Str(Date07312025), Undefined)}
  \cup {[PlainFrontMatter EXCEPT !.title = v] : v \in OddStrings}
  \cup {[PlainFrontMatter EXCEPT !.description = v] : v \in OddStrings}
  \cup {[PlainFrontMatter EXCEPT !.tldr = v] : v \in OddStrings}
  \cup {[PlainFrontMatter EXCEPT !.date = v] :
          v \in {Undefined, Str(DateSoon), Str(Date20241301), Num(0)}}
  \cup {[PlainFrontMatter EXCEPT !.draft = Str(<<"y", "e", "s">>)]}

----------------------------------------------------------------------------
(* getPosts and the index page *)

\* Array.prototype.filter: a new array of the elements that pass, in order
RECURSIVE Filter(_, _)
Filter(arr, prod) ==
  IF arr = <<>> THEN <<>>
  ELSE LET post == Head(arr)
           keep == IF prod THEN ~post.data.draft ELSE TRUE
       IN (IF keep THEN <<post>> ELSE <<>>) \o Filter(Tail(arr), prod)

\* the filter with the two branches of the conditional swapped
getPostsSwapped(st, prod) == Filter(st, ~prod)

\* (await getCollection("blog")).filter(post => PROD ? !post.data.draft : true)
getPosts(st, prod) == Filter(st, prod)

\* the comparator with its operands swapped: oldest first
compareFnAscending(a, b) == a.data.date - b.data.date

\* a comparator that answers like a boolean and never says "equal"
compareFnNeverZero(a, b) == IF b.data.date >= a.data.date THEN 1 ELSE -1

\* the comparator of index.astro
compareFn(a, b) == b.data.date - a.data.date

\* insertion before the elements that compare equal to x
RECURSIVE InsertBeforeEqual(_, _)
InsertBeforeEqual(arr, x) ==
  IF arr = <<>> THEN <<x>>
  ELSE IF (x.data.date - Head(arr).data.date) >= 0 THEN <<x>> \o arr
  ELSE <<Head(arr)>> \o InsertBeforeEqual(Tail(arr), x)

\* insertion of x into the sorted array arr, after every element that does
\* not compare greater than x
RECURSIVE Insert(_, _)
Insert(arr, x) ==
  IF arr = <<>> THEN <<x>>
  ELSE IF compareFn(Head(arr), x) > 0 THEN <<x>> \o arr
  ELSE <<Head(arr)>> \o Insert(Tail(arr), x)

\* Array.prototype.sort(compareFn): a stable sort, here by insertion
RECURSIVE Sort(_)
Sort(arr) ==
  IF arr = <<>> THEN <<>>
  ELSE Insert(Sort(SubSeq(arr, 1, Len(arr) - 1)), arr[Len(arr)])

----------------------------------------------------------------------------
(* Syntax trees.  A node is a record [type, depth, value, children,        *)
(* properties]; depth is the level of a heading or of a section, value is  *)
(* the text of a text node, the source of an ESM or math node, the url of  *)
(* a link, or the tag name of an element; properties are the attributes of *)
(* an element, a set of pairs <<name, value>>.                             *)

Node(type, depth, value, children) ==
  [type |-> type, depth |-> depth, value |-> value, children |-> children,
   properties |-> {}]

Text(value) == Node("text", 0, value, <<>>)
Heading(depth, text) == Node("heading", depth, "", <<Text(text)>>)
Paragraph(text) == Node("paragraph", 0, "", <<Text(text)>>)
Math(value) == Node("math", 0, value, <<>>)
Esm(type) == Node(type, 0, "esm", <<>>)
Root(children) == Node("root", 0, "", children)
Element(tagName, children) == Node("element", 0, tagName, children)
Link(url, text) == Node("link", 0, url, <<Text(text)>>)
Anchor(href, children) ==
  [Element("a", children) EXCEPT !.properties = {<<"href", href>>}]

\* the block nodes a body is made of: ESM nodes, headings, a paragraph of
\* text, a paragraph that is a link, display math that is well formed ("ok")
\* or malformed ("bad")
Blocks ==
  {Esm("mdxjsEsm"), Esm("import"), Esm("export"),
   Heading(1, "t"), Heading(2, "t"), Heading(3, "t"),
   Paragraph("x"), Node("paragraph", 0, "", <<Link("u", "l")>>),
   Math("ok"), Math("bad")}

\* the bodies of the documents: the content that follows the front matter,
\* which is cut off before the body is parsed
Bodies == UNION {[1..n -> Blocks] : n \in 0..MaxNodes}

----------------------------------------------------------------------------
(* insertLeadingH2 (astro.config.mjs) *)

\* Array.prototype.findIndex over the types: the index, counted from 0, of
\* the first node whose type is not in skip; -1 when there is none
findIndex(children, skip) ==
  IF \E i \in 1..Len(children) : children[i].type \notin skip
  THEN (CHOOSE i \in 1..Len(children) :
          /\ children[i].type \notin skip
          /\ \A j \in 1..(i - 1) : children[j].type \in skip) - 1
  ELSE -1

\* a skip list without the type the MDX parser gives to import and export
firstContentIndexLegacyOnly(children) ==
  findIndex(children, {"import", "export"})

\* children.findIndex(n => !["mdxjsEsm", "import", "export"].includes(n.type))
firstContentIndex(children) ==
  findIndex(children, {"mdxjsEsm", "import", "export"})

\* a test for a heading of depth 1
isH1(first) == first.type = "heading" /\ first.depth = 1

\* a test for a heading of any depth
isHeading(first) == first.type = "heading"

\* a test that takes a heading without text for no heading
isH2WithText(first) ==
  /\ first.type = "heading" /\ first.depth = 2
  /\ first.children # <<>> /\ first.children[1].value # ""

\* first.type === "heading" && first.depth === 2
isH2(first) == first.type = "heading" /\ first.depth = 2

\* a synthetic heading of depth 1
syntheticHeadingH1(text) == Node("heading", 1, "", <<Text(text)>>)

\* { type: "heading", depth: 2, children: [{ type: "text", value: text }] }
syntheticHeading(text) == Node("heading", 2, "", <<Text(text)>>)

\* a splice that deletes the node it should insert before
spliceOver(children, start, item) ==
  SubSeq(children, 1, start) \o <<item>>
    \o SubSeq(children, start + 2, Len(children))

\* a splice that puts the item at the start of the array
spliceAtStart(children, start, item) == <<item>> \o children

\* children.splice(start, 0, item), start counted from 0
splice(children, start, item) ==
  SubSeq(children, 1, start) \o <<item>>
    \o SubSeq(children, start + 1, Len(children))

Returned(t) == [tree |-> t, threw |-> FALSE]
Thrown(t) == [tree |-> t, threw |-> TRUE]

\* the transformer without its test for -1: children[-1] is undefined and
\* reading its type throws
insertLeadingH2Unguarded(text, t) ==
  LET children == t.children
      index == firstContentIndex(children)
  IN IF index = -1 THEN [tree |-> t, threw |-> TRUE]
     ELSE IF isH2(children[index + 1]) THEN [tree |-> t, threw |-> FALSE]
     ELSE [tree |-> [t EXCEPT !.children =
                       splice(children, index, syntheticHeading(text))],
           threw |-> FALSE]

\* insertLeadingH2(text)(tree): the tree is changed in place
insertLeadingH2(text, t) ==
  LET children == t.children
      index == firstContentIndex(children)
  IN IF index = -1 THEN Returned(t)
     ELSE IF isH2(children[index + 1]) THEN Returned(t)
     ELSE Returned([t EXCEPT !.children =
                      splice(children, index, syntheticHeading(text))])

----------------------------------------------------------------------------
(* sectionizeHeadings (@mdxvac/remark-sectionize-headings) *)

maxHeadingDepth == 6

\* a section that ends only at a heading of a higher level
RECURSIVE betweenStrict(_, _)
betweenStrict(nodes, depth) ==
  IF nodes = <<>> THEN 0
  ELSE IF Head(nodes).type = "heading" /\ Head(nodes).depth < depth THEN 0
  ELSE 1 + betweenStrict(Tail(nodes), depth)

\* number of nodes a section that starts before nodes and has the given depth
\* takes from them: those before the first heading of that depth or less
RECURSIVE between(_, _)
between(nodes, depth) ==
  IF nodes = <<>> THEN 0
  ELSE IF Head(nodes).type = "heading" /\ Head(nodes).depth <= depth THEN 0
  ELSE 1 + between(Tail(nodes), depth)

\* a wrapping that loses the last node of every section
RECURSIVE sectionizeDroppingLast(_, _)
sectionizeDroppingLast(children, depth) ==
  IF children = <<>> THEN <<>>
  ELSE IF Head(children).type = "heading" /\ Head(children).depth = depth
  THEN LET n == between(Tail(children), depth)
       IN <<Node("section", depth, "",
                 SubSeq(children, 1, IF n = 0 THEN 1 ELSE n))>>
          \o sectionizeDroppingLast(SubSeq(children, n + 2, Len(children)),
                                    depth)
  ELSE <<Head(children)>> \o sectionizeDroppingLast(Tail(children), depth)

\* every heading of the given depth among children, with the nodes that
\* follow it up to the next heading of the same or a higher level, is
\* replaced by one section node
RECURSIVE sectionize(_, _)
sectionize(children, depth) ==
  IF children = <<>> THEN <<>>
  ELSE IF Head(children).type = "heading" /\ Head(children).depth = depth
  THEN LET n == between(Tail(children), depth)
       IN <<Node("section", depth, "", SubSeq(children, 1, n + 1))>>
          \o sectionize(SubSeq(children, n + 2, Len(children)), depth)
  ELSE <<Head(children)>> \o sectionize(Tail(children), depth)

\* the deepest headings are wrapped first, the headings of depth 1 last
RECURSIVE sectionizeFrom(_, _)
sectionizeFrom(children, depth) ==
  IF depth = 0 THEN children
  ELSE sectionizeFrom(sectionize(children, depth), depth - 1)

sectionizeHeadings(t) ==
  Returned([t EXCEPT !.children = sectionizeFrom(t.children, maxHeadingDepth)])

----------------------------------------------------------------------------
(* remark-math, remark-rehype, rehype-katex *)

\* remark-rehype: the markdown tree becomes an HTML tree.  A heading becomes
\* h1..h6, a paragraph p, a section (data.hName) section, display math a
\* code element of class math-display around its source; an mdxjsEsm node
\* passes through; a node of a type without handler becomes its text.
Tags == <<"h1", "h2", "h3", "h4", "h5", "h6">>

\* a handler that makes every link open in a new browsing context
linkHandlerNewTab(node, kids) ==
  [Anchor(node.value, kids) EXCEPT
     !.properties = @ \cup {<<"target", "_blank">>}]

\* the handler of a link: an a element with the url as its href
linkHandler(node, kids) == Anchor(node.value, kids)

RECURSIVE toHast(_)
toHast(node) ==
  LET kids == [i \in 1..Len(node.children) |-> toHast(node.children[i])]
  IN CASE node.type = "root" -> Root(kids)
       [] node.type = "heading" -> Element(Tags[node.depth], kids)
       [] node.type = "paragraph" -> Element("p", kids)
       [] node.type = "section" -> Element("section", kids)
       [] node.type = "link" -> linkHandler(node, kids)
       [] node.type = "math" ->
            Element("code.math-display", <<Text(node.value)>>)
       [] node.type \in {"import", "export"} -> Text(node.value)
       [] OTHER -> node

remarkRehype(t) == Returned(toHast(t))

\* a rendering that leaves no mark on source KaTeX cannot parse
RECURSIVE renderMathUnmarked(_)
renderMathUnmarked(node) ==
  IF node.type = "element" /\ node.value = "code.math-display"
  THEN Element("span.katex", node.children)
  ELSE [node EXCEPT !.children =
          [i \in 1..Len(node.children) |->
             renderMathUnmarked(node.children[i])]]

\* rehype-katex: every math element is replaced by what KaTeX renders of its
\* source; source KaTeX cannot parse is rendered as an error span
RECURSIVE renderMath(_)
renderMath(node) ==
  IF node.type = "element" /\ node.value = "code.math-display"
  THEN IF node.children = <<Text("ok")>>
       THEN Element("span.katex", node.children)
       ELSE Element("span.katex-error", node.children)
  ELSE [node EXCEPT !.children =
          [i \in 1..Len(node.children) |-> renderMath(node.children[i])]]

rehypeKatex(t) == Returned(renderMath(t))

----------------------------------------------------------------------------
(* The pipeline of astro.config.mjs *)

\* the remark plugins listed with the first two in the other order
remarkPluginsSwapped == <<"sectionizeHeadings", "insertLeadingH2", "remarkMath">>

remarkPlugins == <<"insertLeadingH2", "sectionizeHeadings", "remarkMath">>

rehypePlugins == <<"rehypeKatex">>

\* remark-math extends the parser and returns no transformer
hasTransformer(plugin) == plugin # "remarkMath"

\* the transformers of the processor, in the order of their run: those of the
\* remark plugins, the conversion to HTML, those of the rehype plugins
transformers ==
  SelectSeq(remarkPlugins, hasTransformer) \o <<"remarkRehype">>
    \o rehypePlugins

\* the parser: with remark-math among the plugins display math is a math
\* node, without it the same source is a paragraph
fromMarkdown(body) ==
  Root([i \in 1..Len(body) |->
          IF body[i].type = "math"
             /\ ~(\E k \in 1..Len(remarkPlugins) : remarkPlugins[k] = "remarkMath")
          THEN Paragraph(body[i].value)
          ELSE body[i]])

\* the transformer of a plugin, applied to the tree; insertLeadingH2 is
\* attached without options, so that its text is ""
transform(plugin, t) ==
  CASE plugin = "insertLeadingH2" -> insertLeadingH2("", t)
    [] plugin = "sectionizeHeadings" -> sectionizeHeadings(t)
    [] plugin = "remarkRehype" -> remarkRehype(t)
    [] plugin = "rehypeKatex" -> rehypeKatex(t)

----------------------------------------------------------------------------
(* The state machine *)

Init ==
  /\ files \in [1..MaxFiles -> FrontMatters]
  /\ PROD \in BOOLEAN
  /\ pending = 1..MaxFiles
  /\ store = <<>>
  /\ phase = "loading"
  /\ error = NoError
  /\ heap = <<>>
  /\ pc = "idle"
  /\ input = 0
  /\ posts = 0
  /\ doc = 0
  /\ mdast = Root(<<>>)
  /\ tree = Root(<<>>)
  /\ stage = 0
  /\ ran = <<>>
  /\ threw = FALSE
  /\ otherDoc = 0
  /\ otherMdast = Root(<<>>)
  /\ otherTree = Root(<<>>)
  /\ otherStage = 0

\* a loader that logs the file that fails and goes on with the others
syncDataSkip(f) ==
  /\ phase = "loading"
  /\ f \in pending
  /\ LET data == files[f]
         id == generateId(f, data)
         parsed == blogSchema(data)
     IN /\ store' = IF parsed.success
                    THEN storeSet(store, [id |-> id, filePath |-> FilePath(f),
                                          data |-> parsed.data])
                    ELSE store
        /\ pending' = pending \ {f}
        /\ phase' = IF pending \ {f} = {} THEN "loaded" ELSE "loading"
        /\ error' = error
  /\ UNCHANGED <<files, PROD, heap, pc, input, posts>>
  /\ UNCHANGED <<treeVars, pageVars>>

\* syncData(entry) of the glob loader, for one matched file: generate the id,
\* parse the data against the schema (a failure throws, and the rejected
\* Promise.all fails the load), store the entry.  The load is complete when
\* the last file is synced.
syncData(f) ==
  /\ phase = "loading"
  /\ f \in pending
  /\ LET data == files[f]
         id == generateId(f, data)
         parsed == blogSchema(data)
     IN IF parsed.success
        THEN /\ store' = storeSet(store, [id |-> id, filePath |-> FilePath(f),
                                          data |-> parsed.data])
             /\ pending' = pending \ {f}
             /\ phase' = IF pending \ {f} = {} THEN "loaded" ELSE "loading"
             /\ error' = error
        ELSE /\ phase' = "failed"
             /\ error' = [file |-> FilePath(f), id |-> id,
                          issues |-> parsed.issues]
             /\ UNCHANGED <<store, pending>>
  /\ UNCHANGED <<files, PROD, heap, pc, input, posts>>
  /\ UNCHANGED <<treeVars, pageVars>>

\* a getPosts that keeps the array of its first call and returns it again
indexGetPostsCached ==
  /\ phase = "loaded"
  /\ pc = "idle"
  /\ IF heap = <<>>
     THEN heap' = Append(heap, getPosts(store, PROD)) /\ input' = 1
     ELSE heap' = heap /\ input' = 1
  /\ pc' = "awaited"
  /\ UNCHANGED <<files, PROD, pending, store, phase, error, posts>>
  /\ UNCHANGED <<treeVars, pageVars>>

\* index.astro, up to the await: getPosts() returns a new array
indexGetPosts ==
  /\ phase = "loaded"
  /\ pc = "idle"
  /\ Len(heap) < MaxRenders
  /\ heap' = Append(heap, getPosts(store, PROD))
  /\ input' = Len(heap) + 1
  /\ pc' = "awaited"
  /\ UNCHANGED <<files, PROD, pending, store, phase, error, posts>>
  /\ UNCHANGED <<treeVars, pageVars>>

\* a copying sort (toSorted): the result is a new array
indexToSorted ==
  /\ pc = "awaited"
  /\ heap' = Append(heap, Sort(heap[input]))
  /\ posts' = Len(heap) + 1
  /\ pc' = "idle"
  /\ UNCHANGED <<files, PROD, pending, store, phase, error, input>>
  /\ UNCHANGED <<treeVars, pageVars>>

\* index.astro, after the await: .sort(compareFn) sorts the array in place
\* and returns it; `posts` is bound to it
indexSort ==
  /\ pc = "awaited"
  /\ heap' = [heap EXCEPT ![input] = Sort(@)]
  /\ posts' = input
  /\ pc' = "idle"
  /\ UNCHANGED <<files, PROD, pending, store, phase, error, input>>
  /\ UNCHANGED <<treeVars, pageVars>>

Next ==
  \/ \E f \in 1..MaxFiles : syncData(f)
  \/ indexGetPosts
  \/ indexSort

Spec == Init /\ [][Next]_vars

----------------------------------------------------------------------------
(* Rendering the body of a document *)

NoTitle == [PlainFrontMatter EXCEPT !.title = Undefined]

\* a production build of MaxFiles files, each with or without a title
TreeInit ==
  /\ files \in [1..MaxFiles -> {PlainFrontMatter, NoTitle}]
  /\ PROD = TRUE
  /\ pending = 1..MaxFiles
  /\ store = <<>>
  /\ phase = "loading"
  /\ error = NoError
  /\ heap = <<>>
  /\ pc = "idle"
  /\ input = 0
  /\ posts = 0
  /\ doc = 0
  /\ mdast = Root(<<>>)
  /\ tree = Root(<<>>)
  /\ stage = 0
  /\ ran = <<>>
  /\ threw = FALSE
  /\ otherDoc = 0
  /\ otherMdast = Root(<<>>)
  /\ otherTree = Root(<<>>)
  /\ otherStage = 0

\* a render that does not wait for the end of the load: an entry is parsed
\* as soon as it is in the store
parseEarly ==
  /\ doc = 0
  /\ \E f \in 1..MaxFiles : \E body \in Bodies :
       /\ \E i \in 1..Len(store) : store[i].filePath = FilePath(f)
       /\ doc' = f
       /\ mdast' = fromMarkdown(body)
       /\ tree' = fromMarkdown(body)
  /\ UNCHANGED <<stage, ran, threw>>
  /\ UNCHANGED <<storeVars, pageVars>>

\* the body of an entry of the collection, one of bodies, is parsed
parseFrom(bodies) ==
  /\ phase = "loaded"
  /\ doc = 0
  /\ \E f \in 1..MaxFiles : \E body \in bodies :
       /\ \E i \in 1..Len(store) : store[i].filePath = FilePath(f)
       /\ doc' = f
       /\ mdast' = fromMarkdown(body)
       /\ tree' = fromMarkdown(body)
  /\ UNCHANGED <<stage, ran, threw>>
  /\ UNCHANGED <<storeVars, pageVars>>

\* the body of an entry of the collection is parsed
parse == parseFrom(Bodies)

\* a processor that keeps one tree for all documents: what a transformer
\* returns is also the tree of the other document being rendered
runTransformerAliased ==
  /\ doc # 0
  /\ ~threw
  /\ stage < Len(transformers)
  /\ LET plugin == transformers[stage + 1]
         result == transform(plugin, tree)
     IN /\ tree' = result.tree
        /\ threw' = result.threw
        /\ ran' = Append(ran, plugin)
        /\ stage' = stage + 1
        /\ otherTree' = IF otherDoc # 0 THEN result.tree ELSE otherTree
  /\ UNCHANGED <<doc, mdast>>
  /\ UNCHANGED <<storeVars, otherDoc, otherMdast, otherStage>>

\* the run of the processor: the next transformer is applied to the tree
runTransformer ==
  /\ doc # 0
  /\ ~threw
  /\ stage < Len(transformers)
  /\ LET plugin == transformers[stage + 1]
         result == transform(plugin, tree)
     IN /\ tree' = result.tree
        /\ threw' = result.threw
        /\ ran' = Append(ran, plugin)
        /\ stage' = stage + 1
  /\ UNCHANGED <<doc, mdast>>
  /\ UNCHANGED <<storeVars, pageVars>>

TreeNext ==
  \/ \E f \in 1..MaxFiles : syncData(f)
  \/ parse
  \/ runTransformer

SpecTree == TreeInit /\ [][TreeNext]_vars

----------------------------------------------------------------------------
(* The build: the load, then the index page and the page of a document.    *)
(* The bodies are short here: the build is about the order of the phases.  *)

MaxBuildNodes == 1

BuildNext ==
  \/ \E f \in 1..MaxFiles : syncData(f)
  \/ indexGetPosts
  \/ indexSort
  \/ parse /\ Len(mdast'.children) <= MaxBuildNodes
  \/ runTransformer

SpecBuild == TreeInit /\ [][BuildNext]_vars

----------------------------------------------------------------------------
(* Two documents rendered side by side, from short bodies of a few blocks *)

PageBlocks == {Esm("import"), Heading(2, "t"), Paragraph("x"), Math("bad")}

PageBodies == UNION {[1..n -> PageBlocks] : n \in 0..MaxBuildNodes}

\* the body of another entry of the collection is parsed
parseOther ==
  /\ phase = "loaded"
  /\ otherDoc = 0
  /\ \E f \in (1..MaxFiles) \ {doc} : \E body \in PageBodies :
       /\ \E i \in 1..Len(store) : store[i].filePath = FilePath(f)
       /\ otherDoc' = f
       /\ otherMdast' = fromMarkdown(body)
       /\ otherTree' = fromMarkdown(body)
  /\ UNCHANGED otherStage
  /\ UNCHANGED <<storeVars, treeVars>>

\* the run of the processor on the other tree
runTransformerOther ==
  /\ otherDoc # 0
  /\ otherStage < Len(transformers)
  /\ otherTree' = transform(transformers[otherStage + 1], otherTree).tree
  /\ otherStage' = otherStage + 1
  /\ UNCHANGED <<otherDoc, otherMdast>>
  /\ UNCHANGED <<storeVars, treeVars>>

PagesNext ==
  \/ \E f \in 1..MaxFiles : syncData(f)
  \/ parseFrom(PageBodies) /\ doc' # otherDoc
  \/ runTransformer
  \/ parseOther
  \/ runTransformerOther

SpecPages == TreeInit /\ [][PagesNext]_vars

----------------------------------------------------------------------------
(* Properties of the content store and the listing *)

InArray(x, arr) == \E k \in 1..Len(arr) : arr[k] = x

Occurrences(x, arr) == Cardinality({k \in 1..Len(arr) : arr[k] = x})

\* the files whose entry stands in the store
FilesOf(entry) == {f \in 1..MaxFiles : FilePath(f) = entry.filePath}

Required == {"title", "description", "date", "tldr"}

\* the files the loader has synced (a file that fails stays pending)
Synced == (1..MaxFiles) \ pending

\* C1: every array getPosts returned holds every Document of the store when
\* PROD is false, and holds a Document of the store iff its draft flag is
\* false when PROD is true.
C1_ListingFollowsDraftFlag ==
  \A r \in 1..Len(heap) : \A i \in 1..Len(store) :
    /\ ~PROD => InArray(store[i], heap[r])
    /\ PROD => (InArray(store[i], heap[r]) <=> ~store[i].data.draft)

\* a production listing of a store that holds a draft and a published post
C1_Witness ==
  /\ PROD /\ Len(heap) > 0
  /\ \E i, j \in 1..Len(store) : store[i].data.draft /\ ~store[j].data.draft

\* the field k of the front matter fm is absent or not of the declared type
Offends(fm, k) ==
  CASE k \in {"title", "description", "tldr"} -> fm[k].type # "string"
    [] k = "date" -> fm[k] \in {Undefined, Str(DateSoon), Str(Date20241301)}
    [] k = "draft" -> fm[k].type \notin {"undefined", "boolean"}
    [] OTHER -> FALSE

\* C2: a file that lacks title, description, date or tldr is never synced
\* into a loaded store; the load fails on it, and the error carries the path
\* of the file and names every required field the file lacks and no field that is in order.
C2_MissingFieldFailsLoad ==
  /\ \A f \in Synced : \A k \in Required : files[f][k] # Undefined
  /\ phase = "failed" =>
       \E f \in pending :
         /\ error.file = FilePath(f)
         /\ error.issues # {}
         /\ \A k \in Required : files[f][k] = Undefined => k \in error.issues
         /\ \A k \in error.issues : Offends(files[f], k)

\* the load failed on a file without title, and the error names title only
C2_Witness ==
  /\ phase = "failed"
  /\ error.issues = {"title"}
  /\ \E f \in pending : error.file = FilePath(f) /\ files[f].title = Undefined

\* C3: when some matched file fails the schema, the load never completes and
\* nothing is listed, sorted or bound to `posts`, whatever valid entries the
\* store already holds.
C3_LoadIsAllOrNothing ==
  (\E f \in 1..MaxFiles : ~blogSchema(files[f]).success) =>
    /\ phase # "loaded"
    /\ heap = <<>> /\ posts = 0 /\ input = 0 /\ pc = "idle"

\* the load failed after a valid file had been stored
C3_Witness == phase = "failed" /\ store # <<>> /\ heap = <<>>

\* C4: after the load no two entries share an id and the store holds one
\* entry per matched file.
C4_SlugsUniqueNoFileLost ==
  phase = "loaded" =>
    /\ \A i, j \in 1..Len(store) : store[i].id = store[j].id => i = j
    /\ Len(store) = MaxFiles

\* C5 as stated: every loaded Document has a non-empty title, description
\* and tldr.
C5_NonEmptyStrings ==
  \A i \in 1..Len(store) :
    /\ store[i].data.title # <<>>
    /\ store[i].data.description # <<>>
    /\ store[i].data.tldr # <<>>

\* C5 amended: title, description and tldr of every synced file are strings,
\* the empty string included, and the stored entry holds them unchanged.
C5_FieldsAreStrings ==
  /\ \A f \in Synced : \A k \in {"title", "description", "tldr"} :
       files[f][k].type = "string"
  /\ \A i \in 1..Len(store) : \E f \in FilesOf(store[i]) :
       /\ store[i].data.title = files[f].title.s
       /\ store[i].data.description = files[f].description.s
       /\ store[i].data.tldr = files[f].tldr.s

\* a loaded entry with an empty title
C5_Witness ==
  phase = "loaded" /\ \E i \in 1..Len(store) : store[i].data.title = <<>>

IsIsoDate(s) ==
  /\ Len(s) = 10 /\ s[5] = "-" /\ s[8] = "-"
  /\ \A k \in {1, 2, 3, 4, 6, 7, 9, 10} : IsDigit(s[k])

\* C6 as stated: the date of every synced file is an ISO date string.
C6_DateIsIsoString ==
  \A f \in Synced : files[f].date.type = "string" /\ IsIsoDate(files[f].date.s)

\* C6 amended: the date of every synced file is a value new Date() turns into
\* a valid date (a file whose date is absent, is text that is no date or
\* names a month 13 is never synced), and the entry holds that day.
C6_LoadedDateIsValid ==
  /\ \A f \in Synced :
       files[f].date \notin {Undefined, Str(DateSoon), Str(Date20241301)}
  /\ \A i \in 1..Len(store) : \E f \in FilesOf(store[i]) :
       /\ files[f].date = Str(Date20241231) => store[i].data.date = 20088
       /\ files[f].date = Str(Date20230916) => store[i].data.date = 19616
       /\ files[f].date = Str(Date07312025) => store[i].data.date = 20300
       /\ files[f].date = Num(0) => store[i].data.date = 0

\* a loaded entry whose date was written 07-31-2025
C6_Witness ==
  /\ phase = "loaded"
  /\ \E i \in 1..Len(store) : \E f \in FilesOf(store[i]) :
       files[f].date = Str(Date07312025) /\ store[i].data.date = 20300

\* C7: the entry of a file without a draft field has draft = FALSE and is in
\* every array getPosts returned, in production and in development.
C7_DraftDefaultsToFalse ==
  \A i \in 1..Len(store) : \A f \in FilesOf(store[i]) :
    files[f].draft = Undefined =>
      /\ store[i].data.draft = FALSE
      /\ \A r \in 1..Len(heap) : InArray(store[i], heap[r])

\* a production listing that holds the entry of a file without a draft field
C7_Witness ==
  /\ PROD
  /\ \E r \in 1..Len(heap) : \E i \in 1..Len(store) : \E f \in FilesOf(store[i]) :
       files[f].draft = Undefined /\ InArray(store[i], heap[r])

\* C8: the array bound to `posts` is a permutation of what getPosts returns
\* and no entry is dated before the entry after it; an empty listing sorts
\* to an empty array.
C8_SortedPermutation ==
  posts # 0 =>
    LET in == getPosts(store, PROD)
        out == heap[posts]
    IN /\ Len(out) = Len(in)
       /\ \A k \in 1..Len(in) : Occurrences(in[k], out) = Occurrences(in[k], in)
       /\ \A k \in 1..Len(out) - 1 : out[k].data.date >= out[k + 1].data.date
       /\ in = <<>> => out = <<>>

\* the sort moved the more recent of two posts to the front
C8_Witness ==
  /\ posts # 0 /\ Len(heap[posts]) >= 2
  /\ heap[posts] # getPosts(store, PROD)
  /\ heap[posts][1].data.date > heap[posts][2].data.date

\* C9: two entries of equal date stand in the sorted array in the order
\* getPosts returned them in.
C9_SortIsStable ==
  posts # 0 =>
    LET in == getPosts(store, PROD)
        out == heap[posts]
    IN \A i, j \in 1..Len(in) :
         (i < j /\ in[i].data.date = in[j].data.date) =>
           \E k, l \in 1..Len(out) : k < l /\ out[k] = in[i] /\ out[l] = in[j]

\* two different posts of the same date were sorted
C9_Witness ==
  /\ posts # 0 /\ Len(heap[posts]) >= 2
  /\ heap[posts][1].data.date = heap[posts][2].data.date
  /\ heap[posts][1] # heap[posts][2]

\* C10 as stated: once the page has sorted, the array getPosts returned still
\* has the order getPosts gave it, and `posts` is another array.
C10_SortLeavesInputAlone ==
  (pc = "idle" /\ posts # 0) =>
    /\ heap[input] = getPosts(store, PROD)
    /\ posts # input

\* C10 amended: the sort step reorders the array getPosts returned where it
\* stands and binds `posts` to that same array; it allocates no array and
\* leaves the store and every other array as they were.
C10_SortIsInPlace ==
  [][(pc = "awaited" /\ pc' = "idle") =>
       /\ posts' = input
       /\ Len(heap') = Len(heap)
       /\ \A r \in 1..Len(heap) : r # input => heap'[r] = heap[r]
       /\ \A k \in 1..Len(heap[input]) :
            Occurrences(heap[input][k], heap'[input])
              = Occurrences(heap[input][k], heap[input])
       /\ store' = store]_vars

\* the page sorted its second listing in place and changed its order
C10_Witness ==
  /\ pc = "idle" /\ posts = input /\ posts = 2
  /\ heap[input] # getPosts(store, PROD)

\* C11: sorting the array the index page has already sorted gives the same
\* array again, also when several of its posts share a date.
C11_SortIsIdempotent == posts # 0 => Sort(heap[posts]) = heap[posts]

\* a sorted listing of two different posts that share a date
C11_Witness ==
  /\ posts # 0 /\ pc = "idle" /\ Len(heap[posts]) = MaxFiles
  /\ \E k \in 1..Len(heap[posts]) - 1 :
       /\ heap[posts][k].data.date = heap[posts][k + 1].data.date
       /\ heap[posts][k].id # heap[posts][k + 1].id

----------------------------------------------------------------------------
(* Properties of the leading-anchor insertion.  At stage 1 insertLeadingH2  *)
(* has run on the tree and nothing else has; mdast is the tree before it.  *)

ImportLike == {"mdxjsEsm", "import", "export"}

\* the number of import-like nodes the children start with
Leading(children) ==
  CHOOSE n \in 0..Len(children) :
    /\ \A i \in 1..n : children[i].type \in ImportLike
    /\ n = Len(children) \/ children[n + 1].type \notin ImportLike

HasContent(t) == Leading(t.children) < Len(t.children)

FirstContent(t) == t.children[Leading(t.children) + 1]

IsLevel2(node) == node.type = "heading" /\ node.depth = 2

IsSynthetic(node) ==
  /\ IsLevel2(node)
  /\ Len(node.children) = 1
  /\ node.children[1].type = "text" /\ node.children[1].value = ""

HeadingCount(children) ==
  Cardinality({i \in 1..Len(children) : children[i].type = "heading"})

Without(children, k) ==
  SubSeq(children, 1, k - 1) \o SubSeq(children, k + 1, Len(children))

\* C12: when the first node of the parsed tree that is not import-like is a
\* heading of depth 2, the tree after insertLeadingH2 is the parsed tree.
C12_H2FirstIsNoOp ==
  (stage = 1 /\ HasContent(mdast) /\ IsLevel2(FirstContent(mdast))) =>
    tree = mdast /\ ~threw

\* the stage ran on a tree whose depth-2 heading follows an import
C12_Witness ==
  /\ stage = 1 /\ Len(mdast.children) >= 2
  /\ mdast.children[1].type \in ImportLike
  /\ IsLevel2(mdast.children[2])
  /\ tree = mdast

\* C13: when the parsed tree has a content node and the first one is not a
\* heading of depth 2, insertLeadingH2 leaves a tree with one more child and
\* one more heading: the parsed tree plus one synthetic heading.
C13_InsertAddsOneHeading ==
  (stage = 1 /\ HasContent(mdast) /\ ~IsLevel2(FirstContent(mdast))) =>
    /\ ~threw
    /\ Len(tree.children) = Len(mdast.children) + 1
    /\ HeadingCount(tree.children) = HeadingCount(mdast.children) + 1
    /\ \E k \in 1..Len(tree.children) :
         IsSynthetic(tree.children[k]) /\ Without(tree.children, k) = mdast.children

\* the stage inserted before a heading of depth 3
C13_Witness ==
  /\ stage = 1 /\ HasContent(mdast)
  /\ FirstContent(mdast).type = "heading" /\ FirstContent(mdast).depth = 3
  /\ Len(tree.children) = Len(mdast.children) + 1

\* C14: a parsed tree without content node, empty or made of import-like
\* nodes only, is the tree after insertLeadingH2, and nothing was thrown.
C14_NoContentIsNoOp ==
  (stage = 1 /\ ~HasContent(mdast)) => tree = mdast /\ ~threw

\* the stage ran on a tree that holds import-like nodes only
C14_Witness ==
  /\ stage = 1 /\ ~threw /\ Len(mdast.children) >= 2
  /\ \A i \in 1..Len(mdast.children) : mdast.children[i].type \in ImportLike
  /\ tree = mdast

\* C15 as stated: after insertLeadingH2 the tree of every document holds a
\* heading of depth 2.
C15_AlwaysAnH2 ==
  stage = 1 => \E k \in 1..Len(tree.children) : IsLevel2(tree.children[k])

\* C15 amended: after insertLeadingH2 the tree of every document that has a
\* content node holds a heading of depth 2, as its first content node.
C15_H2WhenContent ==
  (stage = 1 /\ HasContent(mdast)) =>
    /\ ~threw
    /\ HasContent(tree) /\ IsLevel2(FirstContent(tree))

\* the stage gave a heading of depth 2 to a tree that had none
C15_Witness ==
  /\ stage = 1 /\ HasContent(mdast)
  /\ \A i \in 1..Len(mdast.children) : ~IsLevel2(mdast.children[i])
  /\ \E k \in 1..Len(tree.children) : IsLevel2(tree.children[k])

\* C16: insertLeadingH2 leaves the leading import-like nodes where they are;
\* it changes the tree exactly when the first node after them is no heading
\* of depth 2, and then the synthetic heading stands right after them and
\* right before that node.
C16_LeadingImportsSkipped ==
  stage = 1 =>
    LET n == Leading(mdast.children)
    IN /\ SubSeq(tree.children, 1, n) = SubSeq(mdast.children, 1, n)
       /\ tree = mdast <=> (~HasContent(mdast) \/ IsLevel2(FirstContent(mdast)))
       /\ tree # mdast =>
            /\ IsSynthetic(tree.children[n + 1])
            /\ tree.children[n + 2] = mdast.children[n + 1]
            /\ tree.children[n + 2].type \notin ImportLike

\* the synthetic heading stands after an mdxjsEsm node and an import
C16_Witness ==
  /\ stage = 1 /\ Len(mdast.children) = 3
  /\ mdast.children[1].type = "mdxjsEsm" /\ mdast.children[2].type = "import"
  /\ mdast.children[3].type = "paragraph"
  /\ IsSynthetic(tree.children[3]) /\ tree.children[4] = mdast.children[3]

----------------------------------------------------------------------------
(* Properties of the sectionization and of the pipeline as a whole.  The   *)
(* step from stage 1 to stage 2 is the run of sectionizeHeadings.          *)

RECURSIVE LeafTexts(_)
\* the values of the text and math leaves of a list of nodes, left to right
LeafTexts(nodes) ==
  IF nodes = <<>> THEN <<>>
  ELSE LET node == Head(nodes)
       IN (IF node.children = <<>> THEN <<node.value>>
           ELSE LeafTexts(node.children)) \o LeafTexts(Tail(nodes))

RECURSIVE Flat(_)
\* the nodes of a list with every section replaced by its children
Flat(nodes) ==
  IF nodes = <<>> THEN <<>>
  ELSE (IF Head(nodes).type = "section" THEN Flat(Head(nodes).children)
        ELSE <<Head(nodes)>>) \o Flat(Tail(nodes))

\* the multiset of the elements of a sequence: element -> number of places
BagOf(s) ==
  LET seq == s
  IN [x \in {seq[i] : i \in 1..Len(seq)} |->
        Cardinality({k \in 1..Len(seq) : seq[k] = x})]

SameBag(a, b) == BagOf(a) = BagOf(b)

\* C17: sectionizeHeadings leaves the multiset of leaf texts of the tree and
\* the multiset of its content nodes as they were.
C17_SectionizeRegroups ==
  [][(stage = 1 /\ stage' = 2) =>
       /\ SameBag(LeafTexts(tree'.children), LeafTexts(tree.children))
       /\ SameBag(Flat(tree'.children), tree.children)]_vars

\* a paragraph of the parsed tree stands inside a section
C17_Witness ==
  /\ stage = 2
  /\ \E i \in 1..Len(mdast.children) : mdast.children[i].type = "paragraph"
  /\ \E k \in 1..Len(tree.children) :
       /\ tree.children[k].type = "section"
       /\ \E j \in 2..Len(tree.children[k].children) :
            tree.children[k].children[j].type = "paragraph"

RECURSIVE Sectioned(_, _)
\* children, the nodes after the heading of a section of depth d (of the
\* root when d = 0): nodes that are neither heading nor section, then
\* sections deeper than d, none deeper than the one before it, each headed
\* by the heading of its depth and sectioned in turn
Sectioned(children, d) ==
  LET plain == CHOOSE n \in 0..Len(children) :
                 /\ \A i \in 1..n : children[i].type # "section"
                 /\ n = Len(children) \/ children[n + 1].type = "section"
  IN /\ \A i \in 1..plain : children[i].type # "heading"
     /\ \A i \in (plain + 1)..Len(children) :
          /\ children[i].type = "section" /\ children[i].depth > d
          /\ children[i].children # <<>>
          /\ children[i].children[1].type = "heading"
          /\ children[i].children[1].depth = children[i].depth
          /\ Sectioned(Tail(children[i].children), children[i].depth)
     /\ \A i \in (plain + 1)..(Len(children) - 1) :
          children[i + 1].depth <= children[i].depth

\* C18: after sectionizeHeadings every heading is the first child of a
\* section of its depth, a section holds the nodes up to the next heading of
\* the same or a higher level, and the section of a deeper heading lies in
\* the section of the shallower heading before it; unwrapped, the sections
\* give the nodes in the order they had.
C18_SectionsMirrorHeadings ==
  [][(stage = 1 /\ stage' = 2) =>
       /\ Sectioned(tree'.children, 0)
       /\ Flat(tree'.children) = tree.children]_vars

\* a section of depth 3 lies in a section of depth 2
C18_Witness ==
  /\ stage = 2
  /\ \E k \in 1..Len(tree.children) :
       /\ tree.children[k].type = "section" /\ tree.children[k].depth = 2
       /\ \E j \in 2..Len(tree.children[k].children) :
            /\ tree.children[k].children[j].type = "section"
            /\ tree.children[k].children[j].depth = 3

Rendered == ran # <<>> /\ ran[Len(ran)] = "rehypeKatex"

StartsWithParagraphNoHeading(t) ==
  /\ t.children # <<>> /\ t.children[1].type = "paragraph"
  /\ \A i \in 1..Len(t.children) : t.children[i].type # "heading"

EmptyH2 == Element("h2", <<Text("")>>)

IsStage(plugin) ==
  plugin \in {"insertLeadingH2", "sectionizeHeadings", "rehypeKatex",
              "outboundLinks"}

\* the stages that have run on the tree: anchor insertion, sectionization,
\* math rendering, link annotation
StagesRun == SelectSeq(ran, IsStage)

----------------------------------------------------------------------------
(* Properties of the build as a whole *)

RECURSIVE runFrom(_, _)
\* the tree after the transformers from the k-th on have run on t
runFrom(t, k) ==
  IF k > Len(transformers) THEN t
  ELSE runFrom(transform(transformers[k], t).tree, k + 1)

RECURSIVE WellFormedMath(_)
\* the tree with well-formed math, and its rendering, where node has
\* malformed math, and its error span
WellFormedMath(node) ==
  IF node = Math("bad") THEN Math("ok")
  ELSE IF node = Element("span.katex-error", <<Text("bad")>>)
  THEN Element("span.katex", <<Text("ok")>>)
  ELSE [node EXCEPT !.children =
          [i \in 1..Len(node.children) |-> WellFormedMath(node.children[i])]]

RECURSIVE ErrorSpans(_)
\* the error spans of a list of nodes, left to right
ErrorSpans(nodes) ==
  IF nodes = <<>> THEN <<>>
  ELSE LET node == Head(nodes)
       IN (IF node.type = "element" /\ node.value = "span.katex-error"
           THEN <<node>> ELSE ErrorSpans(node.children))
          \o ErrorSpans(Tail(nodes))

MalformedMath(t) == {i \in 1..Len(t.children) : t.children[i] = Math("bad")}

RECURSIVE Links(_)
\* the link nodes of a list of nodes of the parsed tree, left to right
Links(nodes) ==
  IF nodes = <<>> THEN <<>>
  ELSE (IF Head(nodes).type = "link" THEN <<Head(nodes)>>
        ELSE Links(Head(nodes).children)) \o Links(Tail(nodes))

RECURSIVE Anchors(_)
\* the a elements of a list of nodes of the rendered tree, left to right
Anchors(nodes) ==
  IF nodes = <<>> THEN <<>>
  ELSE (IF Head(nodes).type = "element" /\ Head(nodes).value = "a"
        THEN <<Head(nodes)>>
        ELSE Anchors(Head(nodes).children)) \o Anchors(Tail(nodes))

HasAttribute(node, name) == \E pair \in node.properties : pair[1] = name

SameDocuments(a, b) ==
  /\ Len(a) = Len(b)
  /\ \A k \in 1..Len(a) : Occurrences(a[k], a) = Occurrences(a[k], b)

\* C25: every call of getPosts returns, in a new array, the documents of the
\* store that pass the filter, in the order of the store, whatever was done
\* with the arrays of earlier calls; it leaves the store, the environment and
\* the arrays of earlier calls as they are; and every array it has returned
\* holds the same documents, each as it is in the store.
C25_GetPostsIsRestartable ==
  /\ [](\A k \in 1..Len(heap) : SameDocuments(heap[k], getPosts(store, PROD)))
  /\ [][pc' = "awaited" =>
          /\ input' = Len(heap) + 1
          /\ heap'[input'] = getPosts(store, PROD)
          /\ \A k \in 1..Len(heap) : heap'[k] = heap[k]
          /\ store' = store /\ PROD' = PROD /\ files' = files]_vars
  /\ [][phase = "loaded" => store' = store /\ PROD' = PROD]_vars

\* a second call has returned the documents in the order of the store after
\* the array of the first call was sorted into another order
C25_Witness ==
  /\ Len(heap) = 2 /\ pc = "awaited" /\ input = 2
  /\ heap[2] = getPosts(store, PROD)
  /\ heap[1] # heap[2]

----------------------------------------------------------------------------
(* More on insertLeadingH2 *)

\* labels the plugin can be configured with
Labels == {"", "Contents"}

\* C26: when insertLeadingH2 inserts, the children of the tree are the
\* leading import-like nodes of the parsed tree, then a heading of depth 2
\* whose only child is a text node with the configured label (the empty
\* string as the plugin is configured), then the other nodes of the parsed
\* tree, each as it was and in the order they had.
C26_SyntheticHeadingInPlace ==
  (stage = 1 /\ HasContent(mdast) /\ ~IsLevel2(FirstContent(mdast))) =>
    LET n == Leading(mdast.children)
        rest == SubSeq(mdast.children, n + 1, Len(mdast.children))
    IN /\ tree.children
            = SubSeq(mdast.children, 1, n)
                \o <<Node("heading", 2, "", <<Node("text", 0, "", <<>>)>>)>>
                \o rest
       /\ \A text \in Labels :
            insertLeadingH2(text, mdast).tree.children
              = SubSeq(mdast.children, 1, n)
                  \o <<Node("heading", 2, "", <<Node("text", 0, text, <<>>)>>)>>
                  \o rest

\* the stage inserted between an import-like node and a paragraph
C26_Witness ==
  /\ stage = 1 /\ HasContent(mdast)
  /\ Leading(mdast.children) >= 1
  /\ FirstContent(mdast).type = "paragraph"
  /\ IsSynthetic(tree.children[Leading(mdast.children) + 1])
  /\ tree.children[Leading(mdast.children) + 2] = FirstContent(mdast)

\* C27: insertLeadingH2 run on the tree it has produced leaves the tree as it
\* is, with the label it is configured with and with any other: a second
\* run adds no second heading.
C27_InsertIsIdempotent ==
  stage = 1 =>
    /\ insertLeadingH2("", tree) = Returned(tree)
    /\ \A text \in Labels :
         LET once == insertLeadingH2(text, mdast).tree
             twice == insertLeadingH2(text, once).tree
         IN /\ twice = once
            /\ HeadingCount(twice.children) <= HeadingCount(mdast.children) + 1

\* the stage has inserted a heading and a second run would insert none
C27_Witness ==
  /\ stage = 1 /\ ~threw
  /\ Len(tree.children) = Len(mdast.children) + 1
  /\ insertLeadingH2("", tree).tree = tree

----------------------------------------------------------------------------
(* More on the schema *)

\* the value of key k is present and of another type than the schema declares
WrongType(fm, k) ==
  CASE k \in {"title", "description", "tldr"} ->
         fm[k].type \notin {"undefined", "string"}
    [] k = "draft" -> fm[k].type \notin {"undefined", "boolean"}
    [] OTHER -> FALSE

Typed == {"title", "description", "tldr", "draft"}

\* C28: a file whose title, description or tldr is present and not a string,
\* or whose draft is present and not a boolean, is never synced and the load
\* never completes; the load that fails on it names the key; the value is
\* neither coerced nor replaced by a default.
C28_WrongTypeFailsLoad ==
  /\ \A f \in Synced : \A k \in Typed : ~WrongType(files[f], k)
  /\ (\E f \in 1..MaxFiles : \E k \in Typed : WrongType(files[f], k)) =>
       phase # "loaded" /\ heap = <<>>
  /\ phase = "failed" =>
       \E f \in pending :
         /\ error.file = FilePath(f)
         /\ \A k \in Typed : WrongType(files[f], k) => k \in error.issues
  /\ \A i \in 1..Len(store) : \E f \in FilesOf(store[i]) :
       /\ files[f].draft.type = "boolean" => store[i].data.draft = files[f].draft.b
       /\ files[f].title.type = "string" /\ store[i].data.title = files[f].title.s

\* the load failed on a file whose draft is text
C28_Witness ==
  /\ phase = "failed"
  /\ error.issues = {"draft"}
  /\ \E f \in pending : error.file = FilePath(f) /\ files[f].draft.type = "string"

Declared == {"title", "description", "date", "tldr", "draft"}

\* C29: the slug of a front matter, a key the schema does not declare, has no
\* part in the parse: every file of the directory passes or fails, with the
\* same issues and the same data, as it does without the slug; a load fails
\* only on a file that fails without its slug too, and the error names
\* declared keys only; the data of every entry has the five declared keys
\* and no other.
C29_UndeclaredKeysAreStripped ==
  /\ pending = 1..MaxFiles =>
       \A f \in 1..MaxFiles :
         blogSchema(files[f]) = blogSchema([files[f] EXCEPT !.slug = Undefined])
  /\ phase = "failed" =>
       \E f \in pending :
         /\ error.file = FilePath(f)
         /\ ~blogSchema([files[f] EXCEPT !.slug = Undefined]).success
  /\ error.issues \subseteq Declared
  /\ \A i \in 1..Len(store) : DOMAIN store[i].data = Declared

\* a loaded entry of a file with a slug
C29_Witness ==
  /\ phase = "loaded"
  /\ \E i \in 1..Len(store) : \E f \in FilesOf(store[i]) :
       /\ files[f].slug # Undefined
       /\ store[i].id = files[f].slug.s
       /\ DOMAIN store[i].data = Declared

----------------------------------------------------------------------------
(* Two documents *)

\* C30: a transformer run on the tree of one document leaves the tree of the
\* other document, the parsed trees, the store and the files as they are;
\* and the tree of a document is at every stage what the transformers make
\* of its own body, whatever was done to the other document before, so that
\* two documents with the same body are rendered to the same tree.
C30_DocumentsAreIndependent ==
  /\ [][stage' # stage =>
          UNCHANGED <<otherDoc, otherMdast, otherTree, otherStage, mdast,
                      store, files, error, phase>>]_vars
  /\ [][otherStage' # otherStage =>
          UNCHANGED <<doc, mdast, tree, stage, otherMdast,
                      store, files, error, phase>>]_vars
  /\ [](stage = Len(transformers) => tree = runFrom(mdast, 1))
  /\ [](otherStage = Len(transformers) => otherTree = runFrom(otherMdast, 1))
  /\ []((stage = otherStage /\ mdast = otherMdast) => tree = otherTree)

\* two documents with different bodies, both rendered
C30_Witness ==
  /\ doc # 0 /\ otherDoc # 0 /\ doc # otherDoc
  /\ stage = Len(transformers) /\ otherStage = Len(transformers)
  /\ mdast.children = <<Paragraph("x")>>
  /\ otherMdast.children = <<Math("bad")>>
  /\ tree # otherTree

====
